---- MODULE Spec2Model ----
(***************************************************************************)
(* xdelta3-rs, src/stream.rs: the source block cache (SrcBuffer) and the   *)
(* pump (process / process_async) that drives the xdelta3 engine.          *)
(***************************************************************************)
EXTENDS Integers, Sequences, FiniteSets, TLC

\* ---------------------------------------------------------------- bounds
MaxSrcLen == 3      \* longest source stream
MaxTgtLen == 1      \* longest target stream
MaxBlkno  == 2      \* highest block index the engine asks for
MaxOutLen == 2      \* most bytes the engine reports as output in one run
MaxChunk  == 2      \* most bytes a reader or writer moves in one call
MaxFail   == 2      \* an I/O failure hits one of the first MaxFail calls of a handler

\* SrcBuffer::new: block_count
BlockCount == 32

\* values of Xd3Config.source_window_size (stored as a power of two)
SourceWindowSizes == {32, 64}

\* values of xd3_stream.winsize after xd3_config_stream
WindowSizes == {2}

Min(a, b) == IF a < b THEN a ELSE b
Max(a, b) == IF a > b THEN a ELSE b

\* map helpers for BTreeMap and for the heap of boxed slices
Put(f, k, v) == [x \in (DOMAIN f) \cup {k} |-> IF x = k THEN v ELSE f[x]]
Remove(f, k) == [x \in (DOMAIN f) \ {k} |-> f[x]]
EmptyMap == [x \in {} |-> 0]

VARIABLES
    mode,       \* ProcessMode
    variant,    \* "process" or "process_async"
    S,          \* bytes of the source stream (behind src_buf.read)
    T,          \* bytes of the target stream (behind input)
    src_buf,    \* SrcBuffer: src (xd3_source), read, read_len, eof_known, block_offset, block_len, cache
    heap,       \* address -> contents of every live Box<[u8]> block buffer
    stream,     \* xd3_stream fields the pump exchanges with the engine
    input_buf,  \* ProcessState.input_buf
    eof,        \* ProcessState.eof
    input,      \* target reader: position
    output,     \* output sink: bytes written, number of flushes
    pc,         \* position of the pump: "step", "dispatch", "flush", "done"
    res,        \* `res` of the loop body: the signal being dispatched, "none" outside the match
    result,     \* return value of process: "none" while running
    eng,        \* private state of the engine behind stream (xd3_stream internals)
    run,        \* which run of the pump this is, and the target of the first run
    hist        \* history: the spans the engine reported, counts of fetches, target
                \* reads and flushes, whether the target returned zero bytes, which
                \* I/O failed

vars == <<mode, variant, S, T, src_buf, heap, stream, input_buf, eof, input,
          output, pc, res, result, eng, run, hist>>

\* ------------------------------------------------------------ the readers
\* io::Read::read / AsyncReadExt::read on a stream of bytes `data` at `pos`,
\* into a buffer with `space` bytes left; the reader hands over at most
\* `chunk` bytes a call and 0 bytes only at the end of the data.
ReadSize(data, pos, space, chunk) == Min(Min(chunk, space), Len(data) - pos)

\* buf[at..] overwritten with `bytes`
Overwrite(buf, at, bytes) ==
    [i \in 1..Len(buf) |->
        IF i > at /\ i <= at + Len(bytes) THEN bytes[i - at] ELSE buf[i]]

\* lowest key of the cache: `for (k, _v) in &self.cache { key = *k; break; }`
FirstKey(cache) ==
    IF DOMAIN cache = {} THEN 0
    ELSE CHOOSE k \in DOMAIN cache : \A j \in DOMAIN cache : k <= j

\* a fresh address for vec![0u8; block_len].into_boxed_slice()
NewAddr(hp) ==
    IF DOMAIN hp = {} THEN 1
    ELSE 1 + CHOOSE a \in DOMAIN hp : \A b \in DOMAIN hp : b <= a

\* ------------------------------------------------------- SrcBuffer::fetch
\* the while loop of fetch; failIn = n > 0: the n-th read call from here fails
RECURSIVE FetchLoop(_, _, _, _, _, _, _)
FetchLoop(data, buf, read_len, pos, chunk, failIn, calls) ==
    IF read_len = Len(buf)
    THEN [ok |-> TRUE, buf |-> buf, read_len |-> read_len, pos |-> pos,
          eof_known |-> FALSE, calls |-> calls]
    ELSE IF failIn = 1
    THEN [ok |-> FALSE, buf |-> buf, read_len |-> read_len, pos |-> pos,
          eof_known |-> FALSE, calls |-> calls + 1]
    ELSE LET len == ReadSize(data, pos, Len(buf) - read_len, chunk)
         IN IF len = 0
            THEN [ok |-> TRUE, buf |-> buf, read_len |-> read_len, pos |-> pos,
                  eof_known |-> TRUE, calls |-> calls + 1]
            ELSE FetchLoop(data,
                           Overwrite(buf, read_len, SubSeq(data, pos + 1, pos + len)),
                           read_len + len, pos + len, chunk,
                           IF failIn = 0 THEN 0 ELSE failIn - 1, calls + 1)

\* mutant: the buffer of the oldest entry is recycled whenever there is one
fetch_Recycle(sb, hp, data, chunk, failIn) ==
    LET evict  == Cardinality(DOMAIN sb.cache) = sb.block_offset /\ sb.block_offset > 0
        key    == FirstKey(sb.cache)
        addr   == IF evict THEN sb.cache[key].buf ELSE NewAddr(hp)
        buf0   == IF evict THEN hp[addr] ELSE [i \in 1..sb.block_len |-> 0]
        cache0 == IF evict THEN Remove(sb.cache, key) ELSE sb.cache
        r      == FetchLoop(data, buf0, 0, sb.read, chunk, failIn, 0)
    IN IF r.ok
       THEN [ok |-> TRUE,
             sb |-> [sb EXCEPT
                       !.read = r.pos,
                       !.eof_known = sb.eof_known \/ r.eof_known,
                       !.cache = Put(cache0, sb.block_offset,
                                     [len |-> r.read_len, buf |-> addr]),
                       !.block_offset = sb.block_offset + 1],
             hp |-> Put(hp, addr, r.buf),
             calls |-> r.calls]
       ELSE [ok |-> FALSE,
             sb |-> [sb EXCEPT !.read = r.pos, !.cache = cache0],
             hp |-> Remove(hp, addr),
             calls |-> r.calls]

\* mutant: the index of the next block is advanced by two
fetch_SkipIndex(sb, hp, data, chunk, failIn) ==
    LET evict  == Cardinality(DOMAIN sb.cache) = sb.block_offset + 1
        key    == FirstKey(sb.cache)
        addr   == IF evict THEN sb.cache[key].buf ELSE NewAddr(hp)
        buf0   == IF evict THEN hp[addr] ELSE [i \in 1..sb.block_len |-> 0]
        cache0 == IF evict THEN Remove(sb.cache, key) ELSE sb.cache
        r      == FetchLoop(data, buf0, 0, sb.read, chunk, failIn, 0)
    IN IF r.ok
       THEN [ok |-> TRUE,
             sb |-> [sb EXCEPT
                       !.read = r.pos,
                       !.eof_known = sb.eof_known \/ r.eof_known,
                       !.cache = Put(cache0, sb.block_offset,
                                     [len |-> r.read_len, buf |-> addr]),
                       !.block_offset = sb.block_offset + 2],
             hp |-> Put(hp, addr, r.buf),
             calls |-> r.calls]
       ELSE [ok |-> FALSE,
             sb |-> [sb EXCEPT !.read = r.pos, !.cache = cache0],
             hp |-> Remove(hp, addr),
             calls |-> r.calls]

\* SrcBuffer::fetch: the next block of the source, read into a buffer and
\* entered in the cache under block_offset
fetch(sb, hp, data, chunk, failIn) ==
    LET evict  == Cardinality(DOMAIN sb.cache) = sb.block_offset + 1
        key    == FirstKey(sb.cache)
        addr   == IF evict THEN sb.cache[key].buf ELSE NewAddr(hp)
        buf0   == IF evict THEN hp[addr] ELSE [i \in 1..sb.block_len |-> 0]
        cache0 == IF evict THEN Remove(sb.cache, key) ELSE sb.cache
        r      == FetchLoop(data, buf0, 0, sb.read, chunk, failIn, 0)
    IN IF r.ok
       THEN [ok |-> TRUE,
             sb |-> [sb EXCEPT
                       !.read = r.pos,
                       !.eof_known = sb.eof_known \/ r.eof_known,
                       !.cache = Put(cache0, sb.block_offset,
                                     [len |-> r.read_len, buf |-> addr]),
                       !.block_offset = sb.block_offset + 1],
             hp |-> Put(hp, addr, r.buf),
             calls |-> r.calls]
       ELSE \* `?` leaves fetch: buf is dropped, an evicted entry stays removed
            [ok |-> FALSE,
             sb |-> [sb EXCEPT !.read = r.pos, !.cache = cache0],
             hp |-> Remove(hp, addr),
             calls |-> r.calls]

\* mutant: the cache is kept to two blocks, the oldest entry is recycled once
\* two are held
fetch_async_Evict(sb, hp, data, chunk, failIn) ==
    LET evict  == Cardinality(DOMAIN sb.cache) = 2
        key    == FirstKey(sb.cache)
        addr   == IF evict THEN sb.cache[key].buf ELSE NewAddr(hp)
        buf0   == IF evict THEN hp[addr] ELSE [i \in 1..sb.block_len |-> 0]
        cache0 == IF evict THEN Remove(sb.cache, key) ELSE sb.cache
        r      == FetchLoop(data, buf0, 0, sb.read, chunk, failIn, 0)
    IN IF r.ok
       THEN [ok |-> TRUE,
             sb |-> [sb EXCEPT
                       !.read = r.pos,
                       !.eof_known = sb.eof_known \/ r.eof_known,
                       !.cache = Put(cache0, sb.block_offset,
                                     [len |-> r.read_len, buf |-> addr]),
                       !.block_offset = sb.block_offset + 1],
             hp |-> Put(hp, addr, r.buf),
             calls |-> r.calls]
       ELSE [ok |-> FALSE,
             sb |-> [sb EXCEPT !.read = r.pos, !.cache = cache0],
             hp |-> Remove(hp, addr),
             calls |-> r.calls]

\* the copy of fetch for AsyncRead readers
fetch_async(sb, hp, data, chunk, failIn) ==
    LET evict  == Cardinality(DOMAIN sb.cache) = sb.block_offset + 1
        key    == FirstKey(sb.cache)
        addr   == IF evict THEN sb.cache[key].buf ELSE NewAddr(hp)
        buf0   == IF evict THEN hp[addr] ELSE [i \in 1..sb.block_len |-> 0]
        cache0 == IF evict THEN Remove(sb.cache, key) ELSE sb.cache
        r      == FetchLoop(data, buf0, 0, sb.read, chunk, failIn, 0)
    IN IF r.ok
       THEN [ok |-> TRUE,
             sb |-> [sb EXCEPT
                       !.read = r.pos,
                       !.eof_known = sb.eof_known \/ r.eof_known,
                       !.cache = Put(cache0, sb.block_offset,
                                     [len |-> r.read_len, buf |-> addr]),
                       !.block_offset = sb.block_offset + 1],
             hp |-> Put(hp, addr, r.buf),
             calls |-> r.calls]
       ELSE [ok |-> FALSE,
             sb |-> [sb EXCEPT !.read = r.pos, !.cache = cache0],
             hp |-> Remove(hp, addr),
             calls |-> r.calls]

\* ------------------------------------------------------ SrcBuffer::getblk
\* mutant: the test for an index already passed is off by one
RECURSIVE GetblkLoop_OffByOne(_, _, _, _, _, _, _, _)
GetblkLoop_OffByOne(sb, hp, data, blkno, chunk, failIn, fetches, calls) ==
    IF blkno \in DOMAIN sb.cache
    THEN [status |-> "found", sb |-> sb, hp |-> hp, fetches |-> fetches, calls |-> calls]
    ELSE IF blkno <= sb.block_offset /\ sb.block_offset > 0
    THEN [status |-> "panic", sb |-> sb, hp |-> hp, fetches |-> fetches, calls |-> calls]
    ELSE LET f == fetch(sb, hp, data, chunk, failIn)
         IN IF ~f.ok
            THEN [status |-> "err", sb |-> f.sb, hp |-> f.hp,
                  fetches |-> fetches + 1, calls |-> calls + f.calls]
            ELSE GetblkLoop_OffByOne(f.sb, f.hp, data, blkno, chunk,
                                     IF failIn = 0 THEN 0 ELSE failIn - f.calls,
                                     fetches + 1, calls + f.calls)

\* the `loop` of getblk: the entry of blkno, after as many fetches as it takes
RECURSIVE GetblkLoop(_, _, _, _, _, _, _, _)
GetblkLoop(sb, hp, data, blkno, chunk, failIn, fetches, calls) ==
    IF blkno \in DOMAIN sb.cache
    THEN [status |-> "found", sb |-> sb, hp |-> hp, fetches |-> fetches, calls |-> calls]
    ELSE IF blkno < sb.block_offset
    THEN [status |-> "panic", sb |-> sb, hp |-> hp, fetches |-> fetches, calls |-> calls]
    ELSE LET f == fetch(sb, hp, data, chunk, failIn)
         IN IF ~f.ok
            THEN [status |-> "err", sb |-> f.sb, hp |-> f.hp,
                  fetches |-> fetches + 1, calls |-> calls + f.calls]
            ELSE GetblkLoop(f.sb, f.hp, data, blkno, chunk,
                            IF failIn = 0 THEN 0 ELSE failIn - f.calls,
                            fetches + 1, calls + f.calls)

RECURSIVE GetblkLoop_async(_, _, _, _, _, _, _, _)
GetblkLoop_async(sb, hp, data, blkno, chunk, failIn, fetches, calls) ==
    IF blkno \in DOMAIN sb.cache
    THEN [status |-> "found", sb |-> sb, hp |-> hp, fetches |-> fetches, calls |-> calls]
    ELSE IF blkno < sb.block_offset
    THEN [status |-> "panic", sb |-> sb, hp |-> hp, fetches |-> fetches, calls |-> calls]
    ELSE LET f == fetch_async(sb, hp, data, chunk, failIn)
         IN IF ~f.ok
            THEN [status |-> "err", sb |-> f.sb, hp |-> f.hp,
                  fetches |-> fetches + 1, calls |-> calls + f.calls]
            ELSE GetblkLoop_async(f.sb, f.hp, data, blkno, chunk,
                                  IF failIn = 0 THEN 0 ELSE failIn - f.calls,
                                  fetches + 1, calls + f.calls)

\* mutant: the block is reported with the full block size, not the bytes read
SupplyBlock_FullLen(src, entry) ==
    [src EXCEPT !.curblkno = src.getblkno,
                !.curblk = entry.buf,
                !.onblk = src.blksize]

\* the current-block fields of the descriptor, set from the entry found
SupplyBlock(src, entry) ==
    [src EXCEPT !.curblkno = src.getblkno,
                !.curblk = entry.buf,
                !.onblk = entry.len]

\* mutant: while the end of the source is unknown, max_blkno and onlastblk are
\* left as they were
SupplyEof_Stale(src, sb) ==
    IF ~sb.eof_known
    THEN [src EXCEPT !.eof_known = 0]
    ELSE [src EXCEPT !.eof_known = 1,
                     !.max_blkno = sb.block_offset - 1,
                     !.onlastblk = sb.read_len % src.blksize]

\* eof_known / max_blkno / onlastblk of the descriptor
SupplyEof(src, sb) ==
    IF ~sb.eof_known
    THEN [src EXCEPT !.eof_known = 0,
                     !.max_blkno = src.curblkno,
                     !.onlastblk = src.onblk]
    ELSE [src EXCEPT !.eof_known = 1,
                     !.max_blkno = sb.block_offset - 1,
                     !.onlastblk = sb.read_len % src.blksize]

getblk(sb, hp, data, chunk, failIn) ==
    LET blkno == sb.src.getblkno
        l     == GetblkLoop(sb, hp, data, blkno, chunk, failIn, 0, 0)
    IN IF l.status # "found" THEN l
       ELSE [l EXCEPT !.status = "ok",
                      !.sb.src = SupplyEof(SupplyBlock(l.sb.src, l.sb.cache[blkno]), l.sb)]

SupplyBlock_async(src, entry) ==
    [src EXCEPT !.curblkno = src.getblkno,
                !.curblk = entry.buf,
                !.onblk = entry.len]

SupplyEof_async(src, sb) ==
    IF ~sb.eof_known
    THEN [src EXCEPT !.eof_known = 0,
                     !.max_blkno = src.curblkno,
                     !.onlastblk = src.onblk]
    ELSE [src EXCEPT !.eof_known = 1,
                     !.max_blkno = sb.block_offset - 1,
                     !.onlastblk = sb.read_len % src.blksize]

getblk_async(sb, hp, data, chunk, failIn) ==
    LET blkno == sb.src.getblkno
        l     == GetblkLoop_async(sb, hp, data, blkno, chunk, failIn, 0, 0)
    IN IF l.status # "found" THEN l
       ELSE [l EXCEPT !.status = "ok",
                      !.sb.src = SupplyEof_async(
                                    SupplyBlock_async(l.sb.src, l.sb.cache[blkno]), l.sb)]

\* SrcBuffer::new
SrcBufferNew(source_window_size) ==
    LET blksize == source_window_size \div BlockCount
    IN [src |-> [blksize |-> blksize, max_winsize |-> source_window_size,
                 getblkno |-> 0, curblkno |-> 0, curblk |-> 0, onblk |-> 0,
                 eof_known |-> 0, max_blkno |-> 0, onlastblk |-> 0],
        read |-> 0,
        read_len |-> 0,
        eof_known |-> FALSE,
        block_offset |-> 0,
        block_len |-> blksize,
        cache |-> EmptyMap]

\* ------------------------------------------------------------- the pump
\* binding::xd3_rvalues, the closed set of signals of xd3_encode_input /
\* xd3_decode_input
ErrorSignals == {"XD3_TOOFARBACK", "XD3_INTERNAL", "XD3_INVALID",
                 "XD3_INVALID_INPUT", "XD3_NOSECOND", "XD3_UNIMPLEMENTED"}
InfoSignals  == {"XD3_GOTHEADER", "XD3_WINSTART", "XD3_WINFINISH"}
Signals      == {"XD3_INPUT", "XD3_OUTPUT", "XD3_GETSRCBLK"}
                    \cup InfoSignals \cup ErrorSignals

\* return values of process / process_async
Running     == [tag |-> "none", kind |-> "", msg |-> ""]
Ok          == [tag |-> "Ok", kind |-> "", msg |-> ""]
Err(k, m)   == [tag |-> "Err", kind |-> k, msg |-> m]
Panic(m)    == [tag |-> "panic", kind |-> "", msg |-> m]

\* mutant: XD3_NOSECOND listed with the signals that need no action
Arm_NoSecondIgnored(r, at_eof) ==
    CASE r = "XD3_INPUT" -> IF at_eof THEN "break" ELSE "read_input"
      [] r = "XD3_OUTPUT" -> "write_output"
      [] r = "XD3_GETSRCBLK" -> "getblk"
      [] r \in {"XD3_GOTHEADER", "XD3_WINSTART", "XD3_WINFINISH", "XD3_NOSECOND"} -> "nothing"
      [] r \in {"XD3_TOOFARBACK", "XD3_INTERNAL", "XD3_INVALID",
                "XD3_INVALID_INPUT", "XD3_UNIMPLEMENTED"} -> "return_err"

\* the match of the loop of process: which arm a signal takes
Arm(r, at_eof) ==
    CASE r = "XD3_INPUT" -> IF at_eof THEN "break" ELSE "read_input"
      [] r = "XD3_OUTPUT" -> "write_output"
      [] r = "XD3_GETSRCBLK" -> "getblk"
      [] r \in {"XD3_GOTHEADER", "XD3_WINSTART", "XD3_WINFINISH"} -> "nothing"
      [] r \in {"XD3_TOOFARBACK", "XD3_INTERNAL", "XD3_INVALID",
                "XD3_INVALID_INPUT", "XD3_NOSECOND", "XD3_UNIMPLEMENTED"} -> "return_err"

\* the match of the loop of process_async
Arm_async(r, at_eof) ==
    CASE r = "XD3_INPUT" -> IF at_eof THEN "break" ELSE "read_input"
      [] r = "XD3_OUTPUT" -> "write_output"
      [] r = "XD3_GETSRCBLK" -> "getblk"
      [] r \in {"XD3_GOTHEADER", "XD3_WINSTART", "XD3_WINFINISH"} -> "nothing"
      [] r \in {"XD3_TOOFARBACK", "XD3_INTERNAL", "XD3_INVALID",
                "XD3_INVALID_INPUT", "XD3_NOSECOND", "XD3_UNIMPLEMENTED"} -> "return_err"

\* io::Error::new(io::ErrorKind::Other, format!("{:?}", res))
SignalError(r) == Err("Other", r)

\* mutant: a zero-length read sets the flush flag but not the eof flag
read_input_NoEof(st, ibuf, at_eof, data, pos, chunk, fail) ==
    IF fail
    THEN [ok |-> FALSE, error |-> Err("Other", "xd3: read_input"),
          stream |-> st, input_buf |-> ibuf, eof |-> at_eof, pos |-> pos]
    ELSE LET read_size == ReadSize(data, pos, Len(ibuf), chunk)
             ibuf1     == Overwrite(ibuf, 0, SubSeq(data, pos + 1, pos + read_size))
             st1       == IF read_size = 0
                          THEN [st EXCEPT !.flags = st.flags \cup {"XD3_FLUSH"}]
                          ELSE st
         IN [ok |-> TRUE, error |-> Ok,
             stream |-> [st1 EXCEPT !.next_in = "input_buf", !.avail_in = read_size],
             input_buf |-> ibuf1,
             eof |-> at_eof,
             pos |-> pos + read_size]

\* mutant: a read that does not fill the window is taken for the end of the target
read_input_ShortEof(st, ibuf, at_eof, data, pos, chunk, fail) ==
    IF fail
    THEN [ok |-> FALSE, error |-> Err("Other", "xd3: read_input"),
          stream |-> st, input_buf |-> ibuf, eof |-> at_eof, pos |-> pos]
    ELSE LET read_size == ReadSize(data, pos, Len(ibuf), chunk)
             ibuf1     == Overwrite(ibuf, 0, SubSeq(data, pos + 1, pos + read_size))
             st1       == IF read_size < Len(ibuf)
                          THEN [st EXCEPT !.flags = st.flags \cup {"XD3_FLUSH"}]
                          ELSE st
         IN [ok |-> TRUE, error |-> Ok,
             stream |-> [st1 EXCEPT !.next_in = "input_buf", !.avail_in = read_size],
             input_buf |-> ibuf1,
             eof |-> (at_eof \/ read_size < Len(ibuf)),
             pos |-> pos + read_size]

\* mutant: the whole window is handed to the engine, whatever the read returned
read_input_FullWindow(st, ibuf, at_eof, data, pos, chunk, fail) ==
    IF fail
    THEN [ok |-> FALSE, error |-> Err("Other", "xd3: read_input"),
          stream |-> st, input_buf |-> ibuf, eof |-> at_eof, pos |-> pos]
    ELSE LET read_size == ReadSize(data, pos, Len(ibuf), chunk)
             ibuf1     == Overwrite(ibuf, 0, SubSeq(data, pos + 1, pos + read_size))
             st1       == IF read_size = 0
                          THEN [st EXCEPT !.flags = st.flags \cup {"XD3_FLUSH"}]
                          ELSE st
         IN [ok |-> TRUE, error |-> Ok,
             stream |-> [st1 EXCEPT !.next_in = "input_buf", !.avail_in = Len(ibuf)],
             input_buf |-> ibuf1,
             eof |-> (at_eof \/ read_size = 0),
             pos |-> pos + read_size]

\* ProcessState::read_input: one read of the target into input_buf
read_input(st, ibuf, at_eof, data, pos, chunk, fail) ==
    IF fail
    THEN [ok |-> FALSE, error |-> Err("Other", "xd3: read_input"),
          stream |-> st, input_buf |-> ibuf, eof |-> at_eof, pos |-> pos]
    ELSE LET read_size == ReadSize(data, pos, Len(ibuf), chunk)
             ibuf1     == Overwrite(ibuf, 0, SubSeq(data, pos + 1, pos + read_size))
             st1       == IF read_size = 0
                          THEN [st EXCEPT !.flags = st.flags \cup {"XD3_FLUSH"}]
                          ELSE st
         IN [ok |-> TRUE, error |-> Ok,
             stream |-> [st1 EXCEPT !.next_in = "input_buf", !.avail_in = read_size],
             input_buf |-> ibuf1,
             eof |-> (at_eof \/ read_size = 0),
             pos |-> pos + read_size]

read_input_async(st, ibuf, at_eof, data, pos, chunk, fail) ==
    IF fail
    THEN [ok |-> FALSE, error |-> Err("Other", "xd3: read_input"),
          stream |-> st, input_buf |-> ibuf, eof |-> at_eof, pos |-> pos]
    ELSE LET read_size == ReadSize(data, pos, Len(ibuf), chunk)
             ibuf1     == Overwrite(ibuf, 0, SubSeq(data, pos + 1, pos + read_size))
             st1       == IF read_size = 0
                          THEN [st EXCEPT !.flags = st.flags \cup {"XD3_FLUSH"}]
                          ELSE st
         IN [ok |-> TRUE, error |-> Ok,
             stream |-> [st1 EXCEPT !.next_in = "input_buf", !.avail_in = read_size],
             input_buf |-> ibuf1,
             eof |-> (at_eof \/ read_size = 0),
             pos |-> pos + read_size]

\* io::Write::write_all / AsyncWriteExt::write_all: write calls of at most
\* `chunk` bytes until all of `bytes` is written or a call fails
RECURSIVE write_all(_, _, _, _)
write_all(out, bytes, chunk, failIn) ==
    IF bytes = <<>> THEN [ok |-> TRUE, out |-> out]
    ELSE IF failIn = 1 THEN [ok |-> FALSE, out |-> out]
    ELSE LET n == Min(chunk, Len(bytes))
         IN write_all([data |-> out.data \o SubSeq(bytes, 1, n), flushed |-> FALSE],
                      SubSeq(bytes, n + 1, Len(bytes)), chunk,
                      IF failIn = 0 THEN 0 ELSE failIn - 1)

\* mutant: the whole output buffer, whatever avail_out says
OutData_WholeBuf(st) == st.next_out

\* std::slice::from_raw_parts(stream.next_out, stream.avail_out)
OutData(st) == SubSeq(st.next_out, 1, st.avail_out)

\* ProcessState::write_output
write_output(st, out, chunk, failIn) ==
    LET w == write_all(out, OutData(st), chunk, failIn)
    IN IF ~w.ok
       THEN [ok |-> FALSE, error |-> Err("Writer", "write"), stream |-> st, out |-> w.out]
       ELSE [ok |-> TRUE, error |-> Ok, stream |-> [st EXCEPT !.avail_out = 0],
             out |-> w.out]

OutData_async(st) == SubSeq(st.next_out, 1, st.avail_out)

\* mutant: the span is not marked consumed
write_output_async_NoConsume(st, out, chunk, failIn) ==
    LET w == write_all(out, OutData_async(st), chunk, failIn)
    IN IF ~w.ok
       THEN [ok |-> FALSE, error |-> Err("Writer", "write"), stream |-> st, out |-> w.out]
       ELSE [ok |-> TRUE, error |-> Ok, stream |-> st, out |-> w.out]

write_output_async(st, out, chunk, failIn) ==
    LET w == write_all(out, OutData_async(st), chunk, failIn)
    IN IF ~w.ok
       THEN [ok |-> FALSE, error |-> Err("Writer", "write"), stream |-> st, out |-> w.out]
       ELSE [ok |-> TRUE, error |-> Ok, stream |-> [st EXCEPT !.avail_out = 0],
             out |-> w.out]

\* mutant: Ok(()) is returned without flushing
flush_Skipped(out, fail) == [result |-> Ok, out |-> out]

\* output.flush() as the return value of process
flush(out, fail) ==
    IF fail THEN [result |-> Err("Writer", "flush"), out |-> out]
    ELSE [result |-> Ok, out |-> [out EXCEPT !.flushed = TRUE]]

flush_async(out, fail) ==
    IF fail THEN [result |-> Err("Writer", "flush"), out |-> out]
    ELSE [result |-> Ok, out |-> [out EXCEPT !.flushed = TRUE]]

\* ProcessState::new, after xd3_config_stream and xd3_set_source returned 0
StreamNew(winsize) ==
    [flags |-> {}, next_in |-> "null", avail_in |-> 0,
     next_out |-> <<>>, avail_out |-> 0, winsize |-> winsize]

\* the output buffers the engine reports spans of
EngineOutBufs == {<<7, 8>>}

\* the streams handed to the pump
SourceStreams == {[i \in 1..n |-> i] : n \in 0..MaxSrcLen}
TargetStreams == {[i \in 1..n |-> 10 + i] : n \in 0..MaxTgtLen}

Init ==
    /\ mode \in {"Encode"}
    /\ variant \in {"process", "process_async"}
    /\ S \in SourceStreams
    /\ T \in TargetStreams
    /\ \E sws \in SourceWindowSizes : src_buf = SrcBufferNew(sws)
    /\ heap = EmptyMap
    /\ \E w \in WindowSizes :
          /\ stream = StreamNew(w)
          /\ input_buf = [i \in 1..w |-> 0]
    /\ eof = FALSE
    /\ input = 0
    /\ output = [data |-> <<>>, flushed |-> FALSE]
    /\ pc = "step"
    /\ res = "none"
    /\ result = Running
    /\ eng = "xdelta3"
    /\ run = [phase |-> "single", target |-> T]
    /\ hist = [reported |-> <<>>, fetches |-> 0, tgt_reads |-> 0, tgt_eof |-> FALSE,
               flushes |-> 0, failed |-> "none"]

\* how the reader or writer behind a handler behaves during one call of the
\* handler: it moves at most `chunk` bytes a call, and its failIn-th call
\* fails (0: none does)
IoPlans == {[chunk |-> c, failIn |-> 0] : c \in 1..MaxChunk}
              \cup {[chunk |-> 1, failIn |-> f] : f \in 1..MaxFail}

\* the arm the loop takes on `res`
TheArm == IF variant = "process" THEN Arm(res, eof) ELSE Arm_async(res, eof)

\* mutant: the error of a handler is dropped and the loop goes on
Try_Swallow(ok) == "step"

\* `?` on the result of a handler: go round the loop, or return the error
Try(ok) == IF ok THEN "step" ELSE "done"

\* process returns: `state` (the engine stream, the cache and its block
\* buffers, input_buf) and the readers go out of scope and are dropped
Freed == "freed"
Return(v) ==
    /\ result' = v
    /\ pc' = "done"
    /\ res' = "none"
    /\ src_buf' = Freed
    /\ heap' = EmptyMap
    /\ stream' = Freed
    /\ input_buf' = Freed
    /\ eof' = Freed
    /\ input' = Freed
    /\ eng' = Freed

\* state.step(mode): the engine advances and returns a signal.  The engine is
\* the external xdelta3 library: any signal, any requested block, any span.
Advance ==
    /\ pc = "step"
    /\ \E sig \in Signals :
         /\ res' = sig
         /\ IF sig = "XD3_GETSRCBLK"
            THEN \E k \in 0..MaxBlkno : src_buf' = [src_buf EXCEPT !.src.getblkno = k]
            ELSE src_buf' = src_buf
         /\ IF sig = "XD3_OUTPUT"
            THEN \E b \in EngineOutBufs : \E n \in 0..Len(b) :
                    /\ Len(hist.reported) + n <= MaxOutLen
                    /\ stream' = [stream EXCEPT !.next_out = b, !.avail_out = n]
                    /\ hist' = [hist EXCEPT !.reported = @ \o SubSeq(b, 1, n)]
            ELSE /\ stream' = stream
                 /\ hist' = hist
    /\ pc' = "dispatch"
    /\ UNCHANGED <<mode, variant, S, T, heap, input_buf, eof, input, output, result,
                   eng, run>>

\* XD3_INPUT with state.eof: break
Break ==
    /\ pc = "dispatch"
    /\ TheArm = "break"
    /\ pc' = "flush"
    /\ res' = "none"
    /\ UNCHANGED <<mode, variant, S, T, src_buf, heap, stream, input_buf, eof,
                   input, output, result, eng, run, hist>>

\* XD3_INPUT: state.read_input(&mut input)?
ReadInput ==
    /\ pc = "dispatch"
    /\ TheArm = "read_input"
    /\ \E io \in IoPlans :
         LET r == IF variant = "process"
                  THEN read_input(stream, input_buf, eof, T, input, io.chunk, io.failIn = 1)
                  ELSE read_input_async(stream, input_buf, eof, T, input, io.chunk,
                                        io.failIn = 1)
         IN /\ hist' = [hist EXCEPT
                          !.tgt_reads = @ + 1,
                          !.tgt_eof = @ \/ (io.failIn # 1 /\ ReadSize(T, input,
                                                Len(input_buf), io.chunk) = 0),
                          !.failed = IF io.failIn = 1 THEN "target" ELSE @]
            /\ IF Try(r.ok) = "step"
               THEN /\ stream' = r.stream
                    /\ input_buf' = r.input_buf
                    /\ eof' = r.eof
                    /\ input' = r.pos
                    /\ pc' = "step"
                    /\ res' = "none"
                    /\ UNCHANGED <<src_buf, heap, result, eng>>
               ELSE Return(r.error)
    /\ UNCHANGED <<mode, variant, S, T, output, run>>

\* mutant: the XD3_OUTPUT arm falls through into a read of the target
WriteOutput_FallThrough ==
    /\ pc = "dispatch"
    /\ TheArm = "write_output"
    /\ \E io \in IoPlans :
         LET w == write_output(stream, output, io.chunk, io.failIn)
             r == read_input(w.stream, input_buf, eof, T, input, io.chunk, FALSE)
         IN /\ output' = w.out
            /\ IF Try(w.ok) = "step"
               THEN /\ hist' = [hist EXCEPT !.tgt_reads = @ + 1,
                                            !.tgt_eof = @ \/ r.pos = input]
                    /\ stream' = r.stream
                    /\ input_buf' = r.input_buf
                    /\ eof' = r.eof
                    /\ input' = r.pos
                    /\ pc' = "step"
                    /\ res' = "none"
                    /\ UNCHANGED <<src_buf, heap, result, eng>>
               ELSE /\ hist' = [hist EXCEPT !.failed = "output"]
                    /\ Return(w.error)
    /\ UNCHANGED <<mode, variant, S, T, run>>

\* XD3_OUTPUT: state.write_output(&mut output)?
WriteOutput ==
    /\ pc = "dispatch"
    /\ TheArm = "write_output"
    /\ \E io \in IoPlans :
         LET r == IF variant = "process"
                  THEN write_output(stream, output, io.chunk, io.failIn)
                  ELSE write_output_async(stream, output, io.chunk, io.failIn)
         IN /\ output' = r.out
            /\ hist' = [hist EXCEPT !.failed = IF r.ok THEN @ ELSE "output"]
            /\ IF Try(r.ok) = "step"
               THEN /\ stream' = r.stream
                    /\ pc' = "step"
                    /\ res' = "none"
                    /\ UNCHANGED <<src_buf, heap, input_buf, eof, input, result, eng>>
               ELSE Return(r.error)
    /\ UNCHANGED <<mode, variant, S, T, run>>

\* XD3_GETSRCBLK: state.src_buf.getblk()?
GetSrcBlk ==
    /\ pc = "dispatch"
    /\ TheArm = "getblk"
    /\ \E io \in IoPlans :
         LET r == IF variant = "process"
                  THEN getblk(src_buf, heap, S, io.chunk, io.failIn)
                  ELSE getblk_async(src_buf, heap, S, io.chunk, io.failIn)
         IN /\ hist' = [hist EXCEPT !.fetches = @ + r.fetches,
                                    !.failed = IF r.status = "err" THEN "source" ELSE @]
            /\ IF r.status = "panic" THEN Return(Panic("invalid blkno"))
               ELSE IF Try(r.status = "ok") = "step"
               THEN /\ src_buf' = r.sb
                    /\ heap' = r.hp
                    /\ pc' = "step"
                    /\ res' = "none"
                    /\ UNCHANGED <<stream, input_buf, eof, input, result, eng>>
               ELSE Return(Err("Reader", "read"))
    /\ UNCHANGED <<mode, variant, S, T, output, run>>

\* XD3_GOTHEADER | XD3_WINSTART | XD3_WINFINISH: do nothing
Nothing ==
    /\ pc = "dispatch"
    /\ TheArm = "nothing"
    /\ pc' = "step"
    /\ res' = "none"
    /\ UNCHANGED <<mode, variant, S, T, src_buf, heap, stream, input_buf, eof,
                   input, output, result, eng, run, hist>>

\* the error signals: return Err(io::Error::new(Other, format!("{:?}", res)))
ReturnErr ==
    /\ pc = "dispatch"
    /\ TheArm = "return_err"
    /\ Return(SignalError(res))
    /\ UNCHANGED <<mode, variant, S, T, output, run, hist>>

\* after the loop: output.flush() is the value process returns
Flush ==
    /\ pc = "flush"
    /\ \E fail \in BOOLEAN :
         LET r == IF variant = "process" THEN flush(output, fail)
                  ELSE flush_async(output, fail)
         IN /\ output' = r.out
            /\ Return(r.result)
            /\ hist' = [hist EXCEPT !.flushes = @ + 1,
                                    !.failed = IF fail THEN "flush" ELSE @]
    /\ UNCHANGED <<mode, variant, S, T, run>>

Next ==
    \/ Advance
    \/ Break
    \/ ReadInput
    \/ WriteOutput
    \/ GetSrcBlk
    \/ Nothing
    \/ ReturnErr
    \/ Flush

Spec == Init /\ [][Next]_vars

\* ------------------------------------------------- a codec as the engine
\* The engine is the xdelta3 library, outside this source.  For the round
\* trip it is taken to be a correct codec behind the interface the pump uses
\* (next_in/avail_in, next_out/avail_out, the source descriptor, the flush
\* flag): the delta holds, for each target byte, either a copy of the source
\* byte at the same position or the byte itself.
OpCopy == 1
OpAdd  == 2

RtMaxLen == 2                       \* longest stream of a round trip
RtBytes  == {1, 2}
RtStreams ==
    UNION {[1..n -> RtBytes] : n \in 0..RtMaxLen}

EngineNew == [pending |-> <<>>, pos |-> 0]

\* the signal and the fields the engine leaves behind
Signal(sig, e, st, blkno) == [sig |-> sig, eng |-> e, stream |-> st, getblkno |-> blkno]

\* the engine takes over the bytes the pump made available at next_in
TakeInput(sig, e, st, ibuf, src) ==
    Signal(sig, [e EXCEPT !.pending = @ \o SubSeq(ibuf, 1, st.avail_in)],
           [st EXCEPT !.avail_in = 0], src.getblkno)

\* one byte of output at next_out
Emit(e, st, src, buf, n, used) ==
    Signal("XD3_OUTPUT",
           [pending |-> SubSeq(e.pending, used + 1, Len(e.pending)), pos |-> e.pos + 1],
           [st EXCEPT !.next_out = buf, !.avail_out = n], src.getblkno)

\* whether the descriptor holds the block of the engine's position
HasBlock(e, src) == src.curblk # 0 /\ src.curblkno = e.pos \div src.blksize

\* the source byte at the engine's position, 0 when the block ends before it
SourceByte(e, src, hp) ==
    LET off == e.pos % src.blksize
    IN IF off < src.onblk THEN hp[src.curblk][off + 1] ELSE 0

xd3_encode_input(e, st, ibuf, src, hp) ==
    IF st.avail_in > 0 THEN TakeInput("XD3_WINSTART", e, st, ibuf, src)
    ELSE IF e.pending = <<>> THEN Signal("XD3_INPUT", e, st, src.getblkno)
    ELSE IF ~HasBlock(e, src)
    THEN Signal("XD3_GETSRCBLK", e, st, e.pos \div src.blksize)
    ELSE IF SourceByte(e, src, hp) = Head(e.pending)
    THEN Emit(e, st, src, <<OpCopy, 0>>, 1, 1)
    ELSE Emit(e, st, src, <<OpAdd, Head(e.pending)>>, 2, 1)

xd3_decode_input(e, st, ibuf, src, hp) ==
    IF st.avail_in > 0 THEN TakeInput("XD3_GOTHEADER", e, st, ibuf, src)
    ELSE IF e.pending = <<>> THEN Signal("XD3_INPUT", e, st, src.getblkno)
    ELSE IF Head(e.pending) = OpCopy
    THEN IF ~HasBlock(e, src)
         THEN Signal("XD3_GETSRCBLK", e, st, e.pos \div src.blksize)
         ELSE IF SourceByte(e, src, hp) # 0
         THEN Emit(e, st, src, <<SourceByte(e, src, hp), 0>>, 1, 1)
         ELSE Signal("XD3_INVALID_INPUT", e, st, src.getblkno)
    ELSE IF Head(e.pending) = OpAdd
    THEN IF Len(e.pending) >= 2
         THEN Emit(e, st, src, <<e.pending[2], 0>>, 1, 2)
         ELSE IF "XD3_FLUSH" \in st.flags
         THEN Signal("XD3_INVALID_INPUT", e, st, src.getblkno)
         ELSE Signal("XD3_INPUT", e, st, src.getblkno)
    ELSE Signal("XD3_INVALID_INPUT", e, st, src.getblkno)

\* ProcessState::step
step(m, e, st, ibuf, src, hp) ==
    IF m = "Encode" THEN xd3_encode_input(e, st, ibuf, src, hp)
    ELSE xd3_decode_input(e, st, ibuf, src, hp)

InitRT ==
    /\ mode \in {"Encode", "Decode"}
    /\ variant \in {"process", "process_async"}
    /\ S \in RtStreams
    /\ T \in RtStreams
    /\ \E sws \in SourceWindowSizes : src_buf = SrcBufferNew(sws)
    /\ heap = EmptyMap
    /\ \E w \in WindowSizes :
          /\ stream = StreamNew(w)
          /\ input_buf = [i \in 1..w |-> 0]
    /\ eof = FALSE
    /\ input = 0
    /\ output = [data |-> <<>>, flushed |-> FALSE]
    /\ pc = "step"
    /\ res = "none"
    /\ result = Running
    /\ eng = EngineNew
    /\ run = [phase |-> IF mode = "Encode" THEN "encode" ELSE "single", target |-> T]
    /\ hist = [reported |-> <<>>, fetches |-> 0, tgt_reads |-> 0, tgt_eof |-> FALSE,
               flushes |-> 0, failed |-> "none"]

\* state.step(mode) with the codec as the engine
Step ==
    /\ pc = "step"
    /\ LET a == step(mode, eng, stream, input_buf, src_buf.src, heap)
       IN /\ res' = a.sig
          /\ eng' = a.eng
          /\ stream' = a.stream
          /\ src_buf' = [src_buf EXCEPT !.src.getblkno = a.getblkno]
          /\ hist' = IF a.sig = "XD3_OUTPUT"
                     THEN [hist EXCEPT !.reported =
                              @ \o SubSeq(a.stream.next_out, 1, a.stream.avail_out)]
                     ELSE hist
    /\ pc' = "dispatch"
    /\ UNCHANGED <<mode, variant, S, T, heap, input_buf, eof, input, output, result, run>>

\* the caller of the round trip: after an Encode run returned Ok, a Decode run
\* on the delta it wrote and the same source, with a configuration of its own
DecodeDelta ==
    /\ pc = "done"
    /\ result = Ok
    /\ run.phase = "encode"
    /\ mode' = "Decode"
    /\ T' = output.data
    /\ run' = [run EXCEPT !.phase = "decode"]
    /\ \E sws \in SourceWindowSizes : src_buf' = SrcBufferNew(sws)
    /\ heap' = EmptyMap
    /\ \E w \in WindowSizes :
          /\ stream' = StreamNew(w)
          /\ input_buf' = [i \in 1..w |-> 0]
    /\ eof' = FALSE
    /\ input' = 0
    /\ output' = [data |-> <<>>, flushed |-> FALSE]
    /\ pc' = "step"
    /\ res' = "none"
    /\ result' = Running
    /\ eng' = EngineNew
    /\ hist' = [reported |-> <<>>, fetches |-> 0, tgt_reads |-> 0, tgt_eof |-> FALSE,
                flushes |-> 0, failed |-> "none"]
    /\ UNCHANGED <<variant, S>>

NextRT ==
    \/ Step
    \/ Break
    \/ ReadInput
    \/ WriteOutput
    \/ GetSrcBlk
    \/ Nothing
    \/ ReturnErr
    \/ Flush
    \/ DecodeDelta

SpecRT == InitRT /\ [][NextRT]_vars

\* ------------------------------------------------------------ the claims
CeilDiv(a, b) == (a + b - 1) \div b
IsPrefix(a, b) == Len(a) <= Len(b) /\ SubSeq(b, 1, Len(a)) = a

\* a getblk has returned Ok and the engine has not asked for another block since
AfterGetblk == pc = "step" /\ hist.fetches > 0

\* C1: after getblk returns Ok for index k = getblkno, on a source of length L
\* with block size B: curblkno = k, onblk = min(B, max(0, L - k*B)) and curblk
\* views exactly the source bytes [k*B, k*B + onblk), whatever was requested
\* before.
C1_CurrentBlock ==
    AfterGetblk =>
        LET src == src_buf.src
            k   == src.getblkno
            B   == src.blksize
            n   == Min(B, Max(0, Len(S) - k * B))
        IN /\ src.curblkno = k
           /\ src.onblk = n
           /\ src.curblk \in DOMAIN heap
           /\ SubSeq(heap[src.curblk], 1, src.onblk) = SubSeq(S, k * B + 1, k * B + n)

\* block 1, a short last block, supplied again after block 2 had been fetched
C1_Witness ==
    /\ AfterGetblk
    /\ src_buf.block_offset = 3
    /\ src_buf.src.curblkno = 1
    /\ src_buf.src.onblk = 1
    /\ src_buf.src.blksize = 2

\* C2: once end-of-source has been observed, every getblk return leaves
\* max_blkno = ceil(L/B) - 1 (stated here for the non-empty sources, L > 0).
C2_MaxBlkno ==
    (AfterGetblk /\ src_buf.eof_known /\ Len(S) > 0) =>
        src_buf.src.max_blkno = CeilDiv(Len(S), src_buf.src.blksize) - 1

\* C3: once end-of-source has been observed, every getblk return leaves
\* onlastblk = L mod B, or B when L mod B = 0 and L > 0.
C3_OnLastBlk ==
    (AfterGetblk /\ src_buf.eof_known) =>
        LET B == src_buf.src.blksize
            L == Len(S)
        IN src_buf.src.onlastblk = IF L % B = 0 /\ L > 0 THEN B ELSE L % B

\* the two pumps take the same step: in the state at hand, whatever the
\* reader or writer does, the handler of process and the handler of
\* process_async compute the same result
SameStep ==
    /\ pc = "dispatch" =>
         /\ Arm(res, eof) = Arm_async(res, eof)
         /\ Arm(res, eof) = "read_input" =>
              \A io \in IoPlans :
                 read_input(stream, input_buf, eof, T, input, io.chunk, io.failIn = 1)
                   = read_input_async(stream, input_buf, eof, T, input, io.chunk,
                                      io.failIn = 1)
         /\ Arm(res, eof) = "write_output" =>
              \A io \in IoPlans :
                 write_output(stream, output, io.chunk, io.failIn)
                   = write_output_async(stream, output, io.chunk, io.failIn)
         /\ Arm(res, eof) = "getblk" =>
              \A io \in IoPlans :
                 getblk(src_buf, heap, S, io.chunk, io.failIn)
                   = getblk_async(src_buf, heap, S, io.chunk, io.failIn)
    /\ pc = "flush" =>
         \A fail \in BOOLEAN : flush(output, fail) = flush_async(output, fail)

\* C5: process and process_async, on the same configuration, streams, engine
\* signals and reader/writer behaviour, go through the same dispatch actions
\* and states, write the same bytes and return the same result.  Both start
\* from the same state, so it is enough that in every state either of them
\* reaches, the step of the one is the step of the other.
C5_SameTrajectory == SameStep

\* a run of process_async that has fetched blocks, read the target to its end,
\* written output and returned Ok
C5_Witness ==
    /\ variant = "process_async"
    /\ result = Ok
    /\ hist.fetches > 1
    /\ hist.tgt_reads > 1
    /\ Len(output.data) > 1

\* C6: the target is never read again after it returned zero bytes; the first
\* XD3_INPUT after the zero-length read leaves the loop without a read and the
\* pump returns what the final flush returns; the pump returns Ok in no other
\* way; for an empty target no run makes more than one target read and a run
\* that returns Ok has made exactly one.
C6_NoReadAfterEof ==
    /\ [](/\ (T = <<>>) => hist.tgt_reads <= 1
          /\ (result = Ok) => (hist.tgt_eof /\ hist.flushes = 1)
          /\ (result = Ok /\ T = <<>>) => hist.tgt_reads = 1
          /\ (pc = "flush") => hist.tgt_eof)
    /\ [][/\ hist.tgt_eof => hist'.tgt_reads = hist.tgt_reads
          /\ (pc = "dispatch" /\ res = "XD3_INPUT" /\ hist.tgt_eof) => pc' = "flush"
          /\ (pc = "flush") => (result' = Ok \/ hist'.failed = "flush")
          /\ (result' = Ok /\ result # Ok) => pc = "flush"]_vars

\* an empty target: one read, then XD3_INPUT again, and the pump returned Ok
C6_Witness ==
    /\ T = <<>>
    /\ result = Ok
    /\ hist.tgt_reads = 1
    /\ hist.tgt_eof

\* C7: on XD3_OUTPUT the pump writes exactly the span (next_out, avail_out) and
\* then resets avail_out to 0: wherever the pump is between two handlers the
\* sink holds the concatenation, in signal order, of all spans reported, each
\* once; while a span waits to be written the sink holds all spans before it;
\* a write that failed leaves a prefix of the last span behind.
C7_SinkIsSpans ==
    CASE pc = "dispatch" /\ res = "XD3_OUTPUT" ->
            output.data \o SubSeq(stream.next_out, 1, stream.avail_out) = hist.reported
      [] pc = "done" /\ hist.failed = "output" ->
            IsPrefix(output.data, hist.reported)
      [] pc = "done" /\ hist.failed # "output" ->
            output.data = hist.reported
      [] OTHER ->
            output.data = hist.reported /\ stream.avail_out = 0

\* two spans of one byte, written one after the other out of the same buffer
C7_Witness ==
    /\ pc = "step"
    /\ hist.reported = <<7, 7>>
    /\ output.data = <<7, 7>>

\* C8: every return of Ok is preceded by a flush of the sink made after the
\* last write to it.
C8_FlushBeforeOk ==
    (result = Ok) => (output.flushed /\ hist.flushes >= 1)

C8_Witness ==
    /\ result = Ok
    /\ Len(output.data) > 0
    /\ output.flushed

\* C9: on a terminal error signal the pump returns at once an error naming the
\* signal: nothing is read, fetched, written or flushed in that step, and
\* nothing at all happens after the return.
C9_ErrorSignalAborts ==
    [][/\ pc # "done"
       /\ (pc = "dispatch" /\ res \in ErrorSignals) =>
             /\ pc' = "done"
             /\ result' = Err("Other", res)
             /\ output' = output
             /\ hist' = hist]_vars

C9_Witness ==
    /\ pc = "done"
    /\ result = Err("Other", "XD3_TOOFARBACK")
    /\ hist.fetches > 0
    /\ Len(output.data) > 0

\* C10: a failed source read, target read or output write makes the pump
\* return an error at once: no retry, no advance call and no byte written
\* after the failure, and the bytes written before it stay in the sink.
C10_IoErrorAborts ==
    /\ [](hist.failed \in {"source", "target", "output"} =>
             /\ pc = "done"
             /\ result.tag = "Err"
             /\ IsPrefix(output.data, hist.reported))
    /\ [][/\ pc # "done"
          /\ IsPrefix(output.data, output'.data)
          /\ (hist'.failed # "none") => pc' = "done"]_vars

\* a write failed after its first byte: the byte stays, the rest never follows
C10_Witness ==
    /\ pc = "done"
    /\ hist.failed = "output"
    /\ output.data = <<7>>
    /\ hist.reported = <<7, 8>>

\* C4: round trip.  For every target and source, an Encode run on (T, S)
\* followed by a Decode run on (the delta written, S) writes exactly T: the
\* Decode run returns Ok with T in the sink unless one of its I/O calls fails.
C4_RoundTrip ==
    (run.phase = "decode" /\ pc = "done") =>
        /\ result = Ok => output.data = run.target
        /\ hist.failed = "none" => result = Ok

\* a round trip of a target that is part copy of the source, part new bytes
C4_Witness ==
    /\ run.phase = "decode"
    /\ result = Ok
    /\ S = <<1, 1>>
    /\ run.target = <<1, 2>>
    /\ output.data = <<1, 2>>
    /\ T = <<OpCopy, OpAdd, 2>>

\* a step of the pump that is a completed read_input: XD3_INPUT was dispatched
\* with state.eof unset and the read returned Ok
ReadInputDone == pc = "dispatch" /\ TheArm = "read_input" /\ pc' = "step"

\* C12 as stated: on XD3_INPUT with eof unset the pump makes one target read of
\* at most one window; if the read is short of the window or returns zero
\* bytes, the flush flag and state.eof are set, so that the next XD3_INPUT
\* leaves the loop.
C12_ShortReadMarksEof ==
    [][ReadInputDone =>
          /\ hist'.tgt_reads = hist.tgt_reads + 1
          /\ stream'.avail_in = input' - input
          /\ stream'.avail_in <= Len(input_buf)
          /\ stream'.avail_in < Len(input_buf) =>
                /\ "XD3_FLUSH" \in stream'.flags
                /\ eof'
                /\ Arm("XD3_INPUT", eof') = "break"
                /\ Arm_async("XD3_INPUT", eof') = "break"]_vars

\* C12 amended: on XD3_INPUT with eof unset the pump makes one target read of
\* at most one window; the flush flag and state.eof are set if and only if the
\* read returns zero bytes, and then the next XD3_INPUT leaves the loop; a read
\* that returns some bytes, short of the window or not, sets neither.
C12_ZeroReadMarksEof ==
    [][ReadInputDone =>
          /\ hist'.tgt_reads = hist.tgt_reads + 1
          /\ stream'.avail_in = input' - input
          /\ stream'.avail_in <= Len(input_buf)
          /\ stream'.avail_in = 0 =>
                /\ "XD3_FLUSH" \in stream'.flags
                /\ eof'
                /\ Arm("XD3_INPUT", eof') = "break"
                /\ Arm_async("XD3_INPUT", eof') = "break"
          /\ stream'.avail_in > 0 =>
                /\ stream'.flags = stream.flags
                /\ eof' = eof
                /\ ~eof']_vars

\* a one-byte target in a two-byte window: the short read was made and eof was
\* set only by the zero-length read after it
C12_Witness ==
    /\ pc = "step"
    /\ Len(T) = 1
    /\ Len(input_buf) = 2
    /\ hist.tgt_reads = 2
    /\ input = 1
    /\ eof = TRUE
    /\ "XD3_FLUSH" \in stream.flags

\* C13: after any getblk return at which no source read has returned zero
\* bytes, the descriptor reports the current block as the last one
\* (eof_known = 0, max_blkno = curblkno, onlastblk = onblk); and eof_known of
\* the descriptor, once 1, stays 1 for as long as the pump runs.
C13_OpenEnded ==
    /\ []((AfterGetblk /\ ~src_buf.eof_known) =>
             /\ src_buf.src.eof_known = 0
             /\ src_buf.src.max_blkno = src_buf.src.curblkno
             /\ src_buf.src.onlastblk = src_buf.src.onblk)
    /\ []((AfterGetblk /\ src_buf.eof_known) => src_buf.src.eof_known = 1)
    /\ [][(pc # "done" /\ pc' # "done" /\ src_buf.src.eof_known = 1)
             => src_buf'.src.eof_known = 1]_vars

\* block 1 of a three-byte source in blocks of one byte: the end of the source
\* has not been seen, and block 1 is reported as the last block
C13_Witness ==
    /\ AfterGetblk
    /\ Len(S) = 3
    /\ src_buf.src.blksize = 1
    /\ ~src_buf.eof_known
    /\ src_buf.src.curblkno = 1
    /\ src_buf.src.max_blkno = 1
    /\ src_buf.src.onlastblk = 1
    /\ src_buf.src.eof_known = 0

\* a step of the pump that is a completed getblk: XD3_GETSRCBLK was dispatched
\* and getblk returned Ok
GetblkDone == pc = "dispatch" /\ TheArm = "getblk" /\ pc' = "step"

\* C14: source blocks are fetched in index order 0, 1, 2, ... and each index
\* once: a getblk for an index k >= block_offset makes exactly
\* k - block_offset + 1 fetches, which add the entries block_offset .. k in the
\* order of the source bytes, and leaves block_offset = k + 1; a getblk for an
\* index in the cache makes no fetch and no source read; entries already in
\* the cache are left as they are.
C14_FetchInOrder ==
    [][GetblkDone =>
         LET k  == src_buf.src.getblkno
             bo == src_buf.block_offset
             B  == src_buf.block_len
         IN /\ \A j \in DOMAIN src_buf.cache :
                  /\ j \in DOMAIN src_buf'.cache
                  /\ src_buf'.cache[j] = src_buf.cache[j]
            /\ IF k \in DOMAIN src_buf.cache
               THEN /\ hist'.fetches = hist.fetches
                    /\ src_buf'.read = src_buf.read
                    /\ src_buf'.block_offset = bo
                    /\ src_buf'.cache = src_buf.cache
                    /\ heap' = heap
               ELSE /\ k >= bo
                    /\ hist'.fetches = hist.fetches + (k - bo + 1)
                    /\ src_buf'.block_offset = k + 1
                    /\ DOMAIN src_buf'.cache = DOMAIN src_buf.cache \cup (bo..k)
                    /\ \A j \in bo..k :
                          LET e == src_buf'.cache[j]
                          IN SubSeq(heap'[e.buf], 1, e.len)
                               = SubSeq(S, j * B + 1, Min(Len(S), (j + 1) * B))]_vars

\* blocks 0 .. 2 were fetched by one getblk for block 2, and a later getblk
\* for block 0 found it in the cache: three fetches in all
C14_Witness ==
    /\ AfterGetblk
    /\ src_buf.block_offset = 3
    /\ hist.fetches = 3
    /\ src_buf.src.curblkno = 0
    /\ Len(S) = 3
    /\ src_buf.block_len = 1

\* C15: over a whole run on a source of L bytes in blocks of B bytes, the
\* number of source-block fetches never exceeds ceil(L / B), whatever block
\* indices the engine requests (stated here for L > 0 and for runs in which no
\* source read has failed).
C15_FetchBound ==
    (pc # "done" /\ Len(S) > 0 /\ hist.failed = "none") =>
        hist.fetches <= CeilDiv(Len(S), src_buf.block_len)

\* C17: every cache entry has len <= block_size, and an entry has
\* len < block_size only if it is the final block: the highest index fetched,
\* with the end of the source observed (stated here for the non-empty sources).
C17_OnlyLastShort ==
    (pc # "done" /\ Len(S) > 0) =>
        \A k \in DOMAIN src_buf.cache :
            /\ src_buf.cache[k].len <= src_buf.block_len
            /\ src_buf.cache[k].len < src_buf.block_len =>
                  (k = src_buf.block_offset - 1 /\ src_buf.eof_known)

\* C16: at every call of the engine, the block that curblk / onblk of the
\* descriptor reference is in the cache, under the index curblkno, with the
\* length and the source bytes it was supplied with; and no step of the pump
\* (no fetch in particular) removes that entry, frees its buffer or changes a
\* byte of it.
C16_LentBlockIntact ==
    /\ []((pc = "step" /\ src_buf.src.curblk # 0) =>
             LET src == src_buf.src
                 k   == src.curblkno
                 B   == src.blksize
             IN /\ k \in DOMAIN src_buf.cache
                /\ src_buf.cache[k] = [len |-> src.onblk, buf |-> src.curblk]
                /\ src.curblk \in DOMAIN heap
                /\ Len(heap[src.curblk]) = B
                /\ SubSeq(heap[src.curblk], 1, src.onblk)
                     = SubSeq(S, k * B + 1, Min(Len(S), (k + 1) * B)))
    /\ [][(pc # "done" /\ pc' # "done" /\ src_buf.src.curblk # 0) =>
             LET a == src_buf.src.curblk
                 k == src_buf.src.curblkno
             IN /\ a \in DOMAIN heap'
                /\ heap'[a] = heap[a]
                /\ k \in DOMAIN src_buf'.cache
                /\ src_buf'.cache[k] = src_buf.cache[k]]_vars

\* block 1 is lent to the engine after block 2 was fetched; blocks 0 and 1,
\* lent before, still hold their bytes
C16_Witness ==
    /\ pc = "step"
    /\ S = <<1, 2, 3>>
    /\ src_buf.block_len = 1
    /\ src_buf.block_offset = 3
    /\ src_buf.src.curblkno = 1
    /\ src_buf.src.curblk = src_buf.cache[1].buf
    /\ heap[src_buf.cache[0].buf] = <<1>>
    /\ heap[src_buf.cache[1].buf] = <<2>>
    /\ heap[src_buf.cache[2].buf] = <<3>>

\* what a step of the pump did: a read of the target, a write to the sink, a
\* resolution of a source-block request, a flush
TargetRead  == hist'.tgt_reads # hist.tgt_reads \/ hist'.failed = "target"
OutputWrite == output'.data # output.data \/ hist'.failed = "output"
BlockResolution ==
    \/ hist'.fetches # hist.fetches
    \/ hist'.failed = "source"
    \/ IF pc' # "done" THEN src_buf' # src_buf /\ res = "XD3_GETSRCBLK" ELSE FALSE
Flushed == hist'.flushes # hist.flushes

\* C18: the pump is sequential.  A call of the engine does no I/O and is
\* followed by the dispatch of its signal; the dispatch does at most one of a
\* target read, an output write and a block resolution, the one its signal
\* asks for, to its end, and is followed by the next call of the engine, by
\* the flush or by the return; the flush does nothing else and returns.  In
\* process and in process_async alike.
C18_Sequential ==
    [][/\ pc = "step" =>
            /\ pc' = "dispatch"
            /\ ~TargetRead /\ ~OutputWrite /\ ~BlockResolution /\ ~Flushed
       /\ pc = "dispatch" =>
            /\ pc' \in {"step", "flush", "done"}
            /\ ~Flushed
            /\ ~(TargetRead /\ OutputWrite)
            /\ ~(TargetRead /\ BlockResolution)
            /\ ~(OutputWrite /\ BlockResolution)
            /\ TargetRead => res = "XD3_INPUT"
            /\ OutputWrite => res = "XD3_OUTPUT"
            /\ BlockResolution => res = "XD3_GETSRCBLK"
       /\ pc = "flush" =>
            /\ pc' = "done"
            /\ ~TargetRead /\ ~OutputWrite /\ ~BlockResolution]_vars

\* a run of process that read the target, resolved source blocks, wrote
\* output and returned Ok
C18_Witness ==
    /\ variant = "process"
    /\ result = Ok
    /\ hist.tgt_reads = 2
    /\ hist.fetches = 2
    /\ output.data = <<7, 8>>
    /\ hist.flushes = 1

\* C19: while the pump runs the cache holds exactly the indices
\* 0 .. block_offset - 1, each in a buffer of its own, so the guard of the
\* recycling path of fetch (cache.len() == block_offset + 1) is false; no
\* entry is ever removed and no buffer recycled, and every fetch adds one
\* resident block.
C19_NeverEvicts ==
    /\ [](pc # "done" =>
            /\ DOMAIN src_buf.cache = 0..(src_buf.block_offset - 1)
            /\ Cardinality(DOMAIN src_buf.cache) = src_buf.block_offset
            /\ Cardinality(DOMAIN src_buf.cache) # src_buf.block_offset + 1
            /\ Cardinality(DOMAIN heap) = src_buf.block_offset
            /\ {src_buf.cache[k].buf : k \in DOMAIN src_buf.cache} = DOMAIN heap)
    /\ [][(pc # "done" /\ pc' # "done") =>
            /\ DOMAIN src_buf.cache \subseteq DOMAIN src_buf'.cache
            /\ DOMAIN heap \subseteq DOMAIN heap'
            /\ Cardinality(DOMAIN src_buf'.cache)
                 = Cardinality(DOMAIN src_buf.cache) + (hist'.fetches - hist.fetches)]_vars

\* process_async after three fetches: three blocks resident, the last two of
\* them empty blocks past the end of a one-byte source
C19_Witness ==
    /\ variant = "process_async"
    /\ pc = "step"
    /\ Len(S) = 1
    /\ src_buf.block_len = 2
    /\ hist.fetches = 3
    /\ DOMAIN src_buf.cache = {0, 1, 2}
    /\ Cardinality(DOMAIN heap) = 3

\* C20: the `invalid blkno` branch of getblk / getblk_async is never taken:
\* whenever the engine requests a block, an index below block_offset is in
\* the cache, whatever the reader of the source does, so getblk either
\* supplies the block or returns the error of a source read, and the pump
\* never ends in the panic.
C20_NoInvalidBlkno ==
    /\ result.tag # "panic"
    /\ (pc = "dispatch" /\ res = "XD3_GETSRCBLK") =>
          /\ src_buf.src.getblkno < src_buf.block_offset
                => src_buf.src.getblkno \in DOMAIN src_buf.cache
          /\ \A io \in IoPlans :
                /\ getblk(src_buf, heap, S, io.chunk, io.failIn).status \in {"ok", "err"}
                /\ getblk_async(src_buf, heap, S, io.chunk, io.failIn).status
                     \in {"ok", "err"}

\* the engine goes back: it requests block 0 when three blocks have been
\* fetched and block 2 is the current one
C20_Witness ==
    /\ pc = "dispatch"
    /\ res = "XD3_GETSRCBLK"
    /\ src_buf.src.getblkno = 0
    /\ src_buf.src.curblkno = 2
    /\ src_buf.block_offset = 3

====
